---------------------------- MODULE Spec2Model ----------------------------
(* A model of the quiz application qa_choices.py: the Streamlit session     *)
(* state of one browser session, the three SQLite tables the quiz flow      *)
(* writes, and one action per user event.  Every action is the whole script *)
(* run the event triggers, together with the run that st.rerun() starts.    *)
EXTENDS Integers, Sequences, FiniteSets, TLC

(***************************************************************************)
(* Bounds of the model.                                                    *)
(***************************************************************************)
\* rows of user_scores after which no further result is recorded
MaxRows == 2
\* number of Attempts that may be started (each start reads a later clock)
MaxStarts == 2
\* number of uuid4() values that may be drawn
MaxUuids == 2
\* get_random_questions alone: the longest list given, the largest count asked
\* for, and the number of calls on the same list
MaxListLen == 2
MaxCount == 3
MaxCalls == 2
\* display_quiz_results alone: the number of submissions displayed
MaxSubmissions == 3
\* the leaderboard alone: the rows of user_scores read, and the latest
\* CURRENT_TIMESTAMP among them
MaxRowsRead == 3
MaxTimestamp == 2
\* load_questions and load_all_questions alone: the files of the directory
MaxFiles == 3
\* the scoring alone: the number of times the same Attempt is scored
MaxScorings == 2

(***************************************************************************)
(* Program constants.                                                      *)
(***************************************************************************)
QuizQuestionCount == 20
ExamQuestionCount == 50
PerfectScoreThreshold == 90
GreatPerformanceThreshold == 80

(***************************************************************************)
(* Python's None / a missing session-state key, and a present value.       *)
(***************************************************************************)
None == <<>>
Some(x) == <<x>>
Val(o) == o[1]

Range(s) == {s[i] : i \in DOMAIN s}
\* min(num_questions, len(questions))
AllOf(a, b) == b
Min(a, b) == IF a <= b THEN a ELSE b

(***************************************************************************)
(* Exact arithmetic for the REAL columns: a number is <<n, d>> in lowest   *)
(* terms.                                                                  *)
(***************************************************************************)
RECURSIVE GCD(_, _)
GCD(a, b) == IF b = 0 THEN a ELSE GCD(b, a % b)
Rat(n, d) == LET g == GCD(n, d) IN IF g = 0 THEN <<0, 1>> ELSE <<n \div g, d \div g>>
RatAdd(r, s) == Rat(r[1] * s[2] + s[1] * r[2], r[2] * s[2])
RatDivInt(r, k) == Rat(r[1], r[2] * k)
RatGeqInt(r, k) == r[1] >= k * r[2]
RatGeq(r, s) == r[1] * s[2] >= s[1] * r[2]

(***************************************************************************)
(* The registered users and the quiz files under qa/ are fixed during a    *)
(* run; each specification chooses them in its initial state.              *)
(***************************************************************************)
Question(p, opts, c) == [question |-> p, options |-> opts, correct_answer |-> c]

\* what is at a path: no file, text that is not JSON, or the value json.load
\* gives, which is a list of elements or something else (an object)
Absent == [kind |-> "absent"]
NotJson == [kind |-> "not json"]
JsonObject == [kind |-> "object"]
JsonList(elems) == [kind |-> "list", elems |-> elems]

\* a path of get_quiz_files(), in sorted order, and what is there
QuizFile(stem, content) == [stem |-> stem, content |-> content]

FileA == QuizFile("A", JsonList(<< Question("a1", <<"x", "y">>, "x") >>))
FileB == QuizFile("B", JsonList(<< Question("b1", <<"v">>, "v") >>))
FileC == QuizFile("C", NotJson)
FileD == QuizFile("D", JsonList(<< Question("d1", <<"w">>, "w") >>))
\* a file holding the empty list
FileE == QuizFile("E", JsonList(<<>>))
\* five questions, so that a score is a multiple of 20
FileQ == QuizFile("Q", JsonList([i \in 1..5 |->
             Question(<<"q", i>>, <<"y", "n">>, "y")]))

ExamName == "50-Question Exam"
\* the pages of the sidebar radio that matter to the quiz flow; on "Analytics"
\* and "Achievements" a run only reads, as it does on "Saved Sessions" when no
\* session button is pressed
Pages == {"Home", "Saved Sessions"}

VARIABLES
    \* the users table and the files of the qa directory
    users, quiz_files,
    \* st.session_state
    logged_in, user_name, current_questions, user_answers, submitted,
    start_time, current_quiz_index, is_exam, quiz_scores, session_id,
    current_quiz_name,
    \* the sidebar radio "Go to" and what the last run displayed as an error
    page, shown,
    \* quiz.db
    user_scores, quiz_sessions, achievements,
    \* the environment: time.time() and the number of uuid4() values drawn
    clock, uuids,
    \* history: the (session id, start time) of every Attempt that was submitted
    submitted_attempts,
    \* for the specifications of single functions: the arguments of the call
    \* and what it returned
    args, result

vars == << users, quiz_files, logged_in, user_name, current_questions, user_answers, submitted,
           start_time, current_quiz_index, is_exam, quiz_scores, session_id,
           current_quiz_name, page, shown, user_scores, quiz_sessions,
           achievements, clock, uuids, submitted_attempts, args, result >>


(***************************************************************************)
(* json.dumps / json.loads of the two TEXT columns of quiz_sessions.  The  *)
(* text is modelled as a sequence of tokens: brackets, keys and strings.   *)
(***************************************************************************)
JsonDumpsStrings(l) == <<"[">> \o l \o <<"]">>
\* a decoder that returns the elements last to first
JsonLoadsStringsReversed(t) == [i \in 1..(Len(t) - 2) |-> t[Len(t) - i]]
JsonLoadsStrings(t) == SubSeq(t, 2, Len(t) - 1)

JsonDumpsQuestion(q) ==
    <<"{", "question", q.question, "options">> \o JsonDumpsStrings(q.options)
        \o <<"correct_answer", q.correct_answer, "}">>
JsonLoadsQuestion(t) ==
    [question |-> t[3],
     options |-> JsonLoadsStrings(SubSeq(t, 5, Len(t) - 3)),
     correct_answer |-> t[Len(t) - 1]]

\* a list of objects: one token sequence per element
JsonDumpsQuestions(qs) == [i \in 1..Len(qs) |-> JsonDumpsQuestion(qs[i])]
JsonLoadsQuestions(t) == [i \in 1..Len(t) |-> JsonLoadsQuestion(t[i])]

(***************************************************************************)
(* save_session: INSERT OR REPLACE of the row keyed by session_id.         *)
(* session_data is the dictionary built in display_quiz_questions.         *)
(***************************************************************************)
SaveSession(store, sid, session_data) ==
    LET row == [user_name |-> session_data.user_name,
                quiz_name |-> session_data.quiz_name,
                questions |-> JsonDumpsQuestions(session_data.questions),
                user_answers |-> JsonDumpsStrings(session_data.user_answers),
                start_time |-> session_data.start_time,
                is_exam |-> IF session_data.is_exam THEN 1 ELSE 0]
    IN  [s \in DOMAIN store \cup {sid} |-> IF s = sid THEN row ELSE store[s]]

(***************************************************************************)
(* load_session: the row of session_id decoded, or None.                   *)
(***************************************************************************)
LoadSession(store, sid) ==
    IF sid \in DOMAIN store
    THEN Some([user_name |-> store[sid].user_name,
               quiz_name |-> store[sid].quiz_name,
               questions |-> JsonLoadsQuestions(store[sid].questions),
               user_answers |-> JsonLoadsStrings(store[sid].user_answers),
               start_time |-> store[sid].start_time,
               is_exam |-> store[sid].is_exam # 0])
    ELSE None

(***************************************************************************)
(* load_questions / load_all_questions.                                    *)
(***************************************************************************)
\* the message st.error displays, "" when the load succeeds
LoadQuestionsShows(content) ==
    IF content.kind = "absent" THEN "Error loading quiz: No such file or directory"
    ELSE IF content.kind = "not json" THEN "Error loading quiz: Invalid JSON format"
    ELSE IF content.kind # "list" THEN "Invalid quiz format"
    ELSE ""

\* what load_questions returns for a path with the given content
LoadQuestionsOf(content) ==
    IF content.kind = "absent" THEN None
    ELSE IF content.kind = "not json" THEN None
    ELSE IF content.kind # "list" THEN None
    ELSE Some(content.elems)

LoadQuestions(i) == LoadQuestionsOf(quiz_files[i].content)

RECURSIVE LoadAllUntilFailure(_)
LoadAllUntilFailure(i) ==
    IF i > Len(quiz_files) \/ LoadQuestions(i) = None THEN <<>>
    ELSE Val(LoadQuestions(i)) \o LoadAllUntilFailure(i + 1)
RECURSIVE LoadAllFrom(_)
LoadAllFrom(i) ==
    IF i > Len(quiz_files) THEN <<>>
    ELSE (IF LoadQuestions(i) # None THEN Val(LoadQuestions(i)) ELSE <<>>)
             \o LoadAllFrom(i + 1)
LoadAllQuestions == LoadAllFrom(1)

\* every option of every question of the qa directory
AllOptions == UNION {Range(LoadAllQuestions[i].options) : i \in 1..Len(LoadAllQuestions)}

(***************************************************************************)
(* get_random_questions: every result random.sample and random.shuffle can *)
(* produce.                                                                *)
(***************************************************************************)
AnyArrangement(n) == [1..n -> 1..n]
Perms(n) == {p \in [1..n -> 1..n] : \A i, j \in 1..n : p[i] = p[j] => i = j}

\* the first option flagged correct in the shuffled pairs, else the old value
FirstShuffled(pairs, old) == pairs[1][1]
FirstFlagged(pairs, old) ==
    IF \E j \in 1..Len(pairs) : pairs[j][2]
    THEN pairs[CHOOSE j \in 1..Len(pairs) :
                   pairs[j][2] /\ \A k \in 1..(j - 1) : ~pairs[k][2]][1]
    ELSE old

ShuffleQuestion(q, p) ==
    LET option_pairs == [j \in 1..Len(q.options) |->
                            <<q.options[j], q.options[j] = q.correct_answer>>]
        shuffled == [j \in 1..Len(q.options) |-> option_pairs[p[j]]]
    IN  [q EXCEPT !.options = [j \in 1..Len(q.options) |-> shuffled[j][1]],
                  !.correct_answer = FirstFlagged(shuffled, q.correct_answer)]

ShufflesOf(q) == {ShuffleQuestion(q, p) : p \in Perms(Len(q.options))}

\* random.sample(questions, k): k distinct positions, in any order
Samples(n, k) == {s \in [1..k -> 1..n] : \A i, j \in 1..k : s[i] = s[j] => i = j}

\* the sampled questions, each under one of the permutations shuffle can choose
RECURSIVE ShuffledSelections(_, _)
ShuffledSelections(questions, idx) ==
    IF idx = <<>> THEN {<<>>}
    ELSE {<<q>> \o rest : q \in ShufflesOf(questions[Head(idx)]),
                          rest \in ShuffledSelections(questions, Tail(idx))}

\* the questions at the sampled positions are shuffled in place: a call gives
\* what it returns and what the list it was given holds afterwards
\* an update that also turns round the options of the questions not sampled
ListAfterTouchingAll(questions, idx, sel) ==
    [i \in 1..Len(questions) |->
        IF \E j \in 1..Len(idx) : idx[j] = i
        THEN sel[CHOOSE j \in 1..Len(idx) : idx[j] = i]
        ELSE [questions[i] EXCEPT
                 !.options = [m \in 1..Len(@) |-> @[Len(@) + 1 - m]]]]
\* the list after the loop: the dictionaries at the sampled positions were
\* updated, the others were not touched
ListAfterShuffle(questions, idx, sel) ==
    [i \in 1..Len(questions) |->
        IF \E j \in 1..Len(idx) : idx[j] = i
        THEN sel[CHOOSE j \in 1..Len(idx) : idx[j] = i]
        ELSE questions[i]]

GetRandomQuestionsCalls(questions, num_questions) ==
    IF questions = <<>> THEN {[returned |-> None, questions |-> questions]}
    ELSE LET k == Min(num_questions, Len(questions))
         IN  UNION {
                {[returned |-> Some(sel),
                  questions |-> ListAfterShuffle(questions, idx, sel)]
                 : sel \in ShuffledSelections(questions, idx)}
                : idx \in Samples(Len(questions), k)}

\* the return values of a call on a freshly loaded list
GetRandomQuestionsUnguarded(questions, num_questions) ==
    IF questions = <<>> THEN {Some(<<>>)}
    ELSE {c.returned : c \in GetRandomQuestionsCalls(questions, num_questions)}
GetRandomQuestions(questions, num_questions) ==
    {c.returned : c \in GetRandomQuestionsCalls(questions, num_questions)}

(***************************************************************************)
(* check_achievements: the candidates, then one INSERT each; the UNIQUE    *)
(* constraint rejects a pair already stored.                               *)
(***************************************************************************)
AchievementCandidatesNoElse(score, quiz_name) ==
    (IF RatGeqInt(score, PerfectScoreThreshold) THEN <<"Perfect Score">> ELSE <<>>)
    \o (IF RatGeqInt(score, GreatPerformanceThreshold) THEN <<"Great Performance">>
        ELSE <<>>)
    \o (IF quiz_name = ExamName THEN <<"Exam Master">> ELSE <<>>)
AchievementCandidates(score, quiz_name) ==
    (IF RatGeqInt(score, PerfectScoreThreshold) THEN <<"Perfect Score">>
     ELSE IF RatGeqInt(score, GreatPerformanceThreshold) THEN <<"Great Performance">>
     ELSE <<>>)
    \o (IF quiz_name = ExamName THEN <<"Exam Master">> ELSE <<>>)

RECURSIVE InsertAchievementsAlways(_, _, _)
InsertAchievementsAlways(table, user, names) ==
    IF names = <<>> THEN table
    ELSE InsertAchievementsAlways(
             Append(table, [user_name |-> user, achievement_name |-> Head(names)]),
             user, Tail(names))
\* a loop that ends at the first pair the table rejects
RECURSIVE InsertAchievementsUntilDuplicate(_, _, _)
InsertAchievementsUntilDuplicate(table, user, names) ==
    IF names = <<>> THEN table
    ELSE LET row == [user_name |-> user, achievement_name |-> Head(names)]
         IN  IF row \in Range(table) THEN table
             ELSE InsertAchievementsUntilDuplicate(Append(table, row), user,
                                                   Tail(names))
RECURSIVE InsertAchievements(_, _, _)
InsertAchievements(table, user, names) ==
    IF names = <<>> THEN table
    ELSE LET row == [user_name |-> user, achievement_name |-> Head(names)]
         IN  InsertAchievements(
                 IF row \in Range(table) THEN table ELSE Append(table, row),
                 user, Tail(names))

CheckAchievements(table, user, score, quiz_name) ==
    InsertAchievements(table, user, AchievementCandidates(score, quiz_name))

(***************************************************************************)
(* display_quiz_results: scoring, the cumulative aggregate, and the INSERT *)
(* into user_scores.                                                       *)
(***************************************************************************)
AnsweredCount(questions, answers) ==
    Cardinality({i \in 1..Len(questions) : answers[i] # ""})
CorrectCount(questions, answers) ==
    Cardinality({i \in 1..Len(questions) : answers[i] = questions[i].correct_answer})

ScorePercentage(questions, answers) ==
    Rat(CorrectCount(questions, answers) * 100, Len(questions))

RECURSIVE SumScores(_, _)
SumScores(scores, names) ==
    IF names = {} THEN <<0, 1>>
    ELSE LET n == CHOOSE x \in names : TRUE
         IN  RatAdd(scores[n], SumScores(scores, names \ {n}))

\* st.session_state.quiz_scores[quiz_name] = score_percentage
KeepBestScore(qsc, quiz_name, score) ==
    [n \in DOMAIN qsc \cup {quiz_name} |->
        IF n # quiz_name THEN qsc[n]
        ELSE IF n \in DOMAIN qsc /\ RatGeq(qsc[n], score) THEN qsc[n] ELSE score]
StoreScore(qsc, quiz_name, score) ==
    [n \in DOMAIN qsc \cup {quiz_name} |-> IF n = quiz_name THEN score ELSE qsc[n]]

\* save_user_scores: INSERT INTO user_scores
ReplaceUserScore(rows, row) ==
    IF \E k \in 1..Len(rows) :
           rows[k].user_name = row.user_name /\ rows[k].quiz_name = row.quiz_name
    THEN [k \in 1..Len(rows) |->
             IF rows[k].user_name = row.user_name /\ rows[k].quiz_name = row.quiz_name
             THEN row ELSE rows[k]]
    ELSE Append(rows, row)
SaveUserScores(rows, row) == Append(rows, row)

\* current_quiz_file as main() passes it: None unless a regular quiz has an index
CurrentQuizFile(exam, cqi) == IF ~exam /\ cqi # None THEN cqi ELSE None

\* Path(current_quiz_file).stem raises TypeError on None
QuizNameRaises(exam, cqi) == ~exam /\ CurrentQuizFile(exam, cqi) = None

QuizName(exam, cqi) ==
    IF exam THEN ExamName ELSE quiz_files[Val(CurrentQuizFile(exam, cqi))].stem

DisplayQuizResults(qs, ans, st, exam, cqi, uname, qsc, rows, ach, now) ==
    LET score_percentage == ScorePercentage(qs, ans)
        final_time == now - st
        quiz_name == QuizName(exam, cqi)
        scores == StoreScore(qsc, quiz_name, score_percentage)
        completed_quizzes == Cardinality(DOMAIN scores)
        average_score == RatDivInt(SumScores(scores, DOMAIN scores), completed_quizzes)
        row == [user_name |-> uname, quiz_name |-> quiz_name,
                score |-> score_percentage, time_taken |-> final_time,
                total_quizzes |-> completed_quizzes, average_score |-> average_score]
    IN  [quiz_scores |-> scores,
         user_scores |-> SaveUserScores(rows, row),
         achievements |-> CheckAchievements(ach, uname, score_percentage, quiz_name),
         shown |-> "none"]

(***************************************************************************)
(* main(): what one run of the script does to quiz_scores and the tables,  *)
(* given the session state it runs on.  Only the results page writes.      *)
(***************************************************************************)
ShowsResults(pg, li, qs, sub) == li /\ pg = "Home" /\ qs # None /\ sub
\* the questions page without the test of submitted
ShowsQuestionsAlways(pg, li, qs, sub) == li /\ pg = "Home" /\ qs # None
ShowsQuestions(pg, li, qs, sub) == li /\ pg = "Home" /\ qs # None /\ ~sub

Main(pg, li, qs, ans, sub, st, exam, cqi, uname, qsc, rows, ach, now) ==
    IF ShowsResults(pg, li, qs, sub)
    THEN IF QuizNameRaises(exam, cqi)
         THEN [quiz_scores |-> qsc, user_scores |-> rows, achievements |-> ach,
               shown |-> "exception"]
         ELSE DisplayQuizResults(Val(qs), Val(ans), Val(st), exam, cqi, Val(uname),
                                 qsc, rows, ach, now)
    ELSE [quiz_scores |-> qsc, user_scores |-> rows, achievements |-> ach,
          shown |-> "none"]

\* the run of main() on the given session state, as part of an action
MainRuns(pg, li, qs, ans, sub, st, exam, cqi, uname) ==
    LET r == Main(pg, li, qs, ans, sub, st, exam, cqi, uname,
                  quiz_scores, user_scores, achievements, clock)
    IN  /\ (ShowsResults(pg, li, qs, sub) /\ ~QuizNameRaises(exam, cqi))
               => Len(user_scores) < MaxRows
        /\ quiz_scores' = r.quiz_scores
        /\ user_scores' = r.user_scores
        /\ achievements' = r.achievements
        /\ shown' = r.shown

(***************************************************************************)
(* The state after construction: main() has initialised the session state  *)
(* of a new browser session and shows the login page; quiz.db is empty.    *)
(***************************************************************************)
InitSession ==
    /\ logged_in = FALSE
    /\ user_name = None
    /\ current_questions = None
    /\ user_answers = None
    /\ submitted = FALSE
    /\ start_time = None
    /\ current_quiz_index = None
    /\ is_exam = FALSE
    /\ quiz_scores = <<>>
    /\ session_id = None
    /\ current_quiz_name = None
    /\ page = "Home"
    /\ shown = "none"
    /\ user_scores = <<>>
    /\ quiz_sessions = <<>>
    /\ achievements = <<>>
    /\ clock = 0
    /\ uuids = 0
    /\ submitted_attempts = {}

\* the application as a whole makes no call of the single-function specifications
NoCall == args = None /\ result = None

\* a quiz whose question has two options, a quiz of one option, a broken file
Init ==
    /\ users = {"alice"}
    /\ quiz_files = << FileA, FileB, FileC >>
    /\ InitSession
    /\ NoCall

\* two quizzes whose questions have one option each, and a broken file
InitPlain ==
    /\ users = {"alice"}
    /\ quiz_files = << FileB, FileC, FileD >>
    /\ InitSession
    /\ NoCall

(***************************************************************************)
(* display_login_page: a successful login, then the rerun.                 *)
(***************************************************************************)
Login(u) ==
    /\ UNCHANGED << users, quiz_files, args, result >>
    /\ ~logged_in
    /\ logged_in' = TRUE
    /\ user_name' = Some(u)
    /\ MainRuns(page, TRUE, current_questions, user_answers, submitted,
                start_time, is_exam, current_quiz_index, Some(u))
    /\ UNCHANGED << current_questions, user_answers, submitted, start_time,
                    current_quiz_index, is_exam, session_id, current_quiz_name,
                    page, quiz_sessions, clock, uuids, submitted_attempts >>

(***************************************************************************)
(* display_logout_button: every key but quiz_scores is deleted, then the   *)
(* rerun re-initialises the keys in main() and shows the login page, where *)
(* the sidebar radio is not rendered and so loses its value.               *)
(***************************************************************************)
\* "if key != 'quiz_scores'": the keys the loop does not delete
KeptAtLogoutWithSession(key) == key \in {"quiz_scores", "session_id"}
KeptAtLogout(key) == key = "quiz_scores"

\* the value of a key after the loop and the initialisation at the top of
\* main(): a deleted key has its initial value again, or is absent
AfterLogout(key, value, initial) == IF KeptAtLogout(key) THEN value ELSE initial

Logout ==
    /\ UNCHANGED << users, quiz_files, args, result >>
    /\ logged_in
    /\ logged_in' = FALSE
    /\ user_name' = AfterLogout("user_name", user_name, None)
    /\ current_questions' = AfterLogout("current_questions", current_questions, None)
    /\ user_answers' = AfterLogout("user_answers", user_answers, None)
    /\ submitted' = AfterLogout("submitted", submitted, FALSE)
    /\ start_time' = AfterLogout("start_time", start_time, None)
    /\ current_quiz_index' = AfterLogout("current_quiz_index", current_quiz_index, None)
    /\ is_exam' = AfterLogout("is_exam", is_exam, FALSE)
    /\ quiz_scores' = AfterLogout("quiz_scores", quiz_scores, <<>>)
    /\ session_id' = AfterLogout("session_id", session_id, None)
    /\ current_quiz_name' = AfterLogout("current_quiz_name", current_quiz_name, None)
    /\ page' = "Home"
    /\ shown' = "none"
    /\ UNCHANGED << user_scores, quiz_sessions, achievements,
                    clock, uuids, submitted_attempts >>

(***************************************************************************)
(* The sidebar radio "Go to": the run that follows displays the new page.  *)
(***************************************************************************)
Navigate(p) ==
    /\ UNCHANGED << users, quiz_files, args, result >>
    /\ logged_in
    /\ p # page
    /\ page' = p
    /\ MainRuns(p, logged_in, current_questions, user_answers, submitted,
                start_time, is_exam, current_quiz_index, user_name)
    /\ UNCHANGED << logged_in, user_name, current_questions, user_answers,
                    submitted, start_time, current_quiz_index, is_exam,
                    session_id, current_quiz_name, quiz_sessions, clock, uuids,
                    submitted_attempts >>

(***************************************************************************)
(* reset_quiz_state after current_questions was set, then st.rerun().      *)
(***************************************************************************)
CanStart == clock < MaxStarts /\ (session_id = None => uuids < MaxUuids)

\* [""] * len(questions)
EmptyAnswersOfQuizLength(questions) == [i \in 1..QuizQuestionCount |-> ""]
EmptyAnswers(questions) == [i \in 1..Len(questions) |-> ""]

ResetQuizState(questions) ==
    /\ user_answers' = Some(EmptyAnswers(questions))
    /\ submitted' = FALSE
    /\ clock' = clock + 1
    /\ start_time' = Some(clock + 1)
    /\ IF session_id = None
       THEN session_id' = Some(uuids + 1) /\ uuids' = uuids + 1
       ELSE UNCHANGED << session_id, uuids >>

\* the quiz selection page is what Home shows while there is no Attempt
ShowsSelection == logged_in /\ page = "Home" /\ current_questions = None

\* the first file that loads, for the fallback of select_quiz
FirstValid == CHOOSE i \in 1..Len(quiz_files) :
                  LoadQuestions(i) # None /\ \A j \in 1..(i - 1) : LoadQuestions(j) = None

(***************************************************************************)
(* select_quiz(quiz_index, quiz_files).                                    *)
(***************************************************************************)
SelectQuiz(quiz_index) ==
    /\ UNCHANGED << users, quiz_files, args, result >>
    /\ ShowsSelection
    /\ LET new_questions == LoadQuestions(quiz_index)
           valid == \E i \in 1..Len(quiz_files) : LoadQuestions(i) # None
           index == IF new_questions # None \/ ~valid THEN quiz_index ELSE FirstValid
           loaded == LoadQuestions(index)
       IN  /\ current_quiz_index' = Some(index)
           /\ IF loaded = None
              THEN /\ shown' = "none"
                   /\ UNCHANGED << current_questions, user_answers, submitted,
                                   start_time, session_id, clock, uuids,
                                   quiz_scores, user_scores, achievements >>
              ELSE \E random_questions \in GetRandomQuestions(Val(loaded), QuizQuestionCount) :
                     IF random_questions = None
                     THEN /\ shown' = "none"
                          /\ UNCHANGED << current_questions, user_answers, submitted,
                                          start_time, session_id, clock, uuids,
                                          quiz_scores, user_scores, achievements >>
                     ELSE /\ CanStart
                          /\ current_questions' = random_questions
                          /\ ResetQuizState(Val(random_questions))
                          /\ MainRuns(page, logged_in, random_questions, user_answers',
                                      FALSE, start_time', is_exam, Some(index), user_name)
    /\ UNCHANGED << logged_in, user_name, is_exam, current_quiz_name, page,
                    quiz_sessions, submitted_attempts >>

(***************************************************************************)
(* start_exam().                                                           *)
(***************************************************************************)
StartExam ==
    /\ UNCHANGED << users, quiz_files, args, result >>
    /\ ShowsSelection
    /\ LoadAllQuestions # <<>>
    /\ \E exam_questions \in GetRandomQuestions(LoadAllQuestions, ExamQuestionCount) :
          /\ exam_questions # None
          /\ CanStart
          /\ current_questions' = exam_questions
          /\ is_exam' = TRUE
          /\ ResetQuizState(Val(exam_questions))
          /\ MainRuns(page, logged_in, exam_questions, user_answers', FALSE,
                      start_time', TRUE, current_quiz_index, user_name)
    /\ UNCHANGED << logged_in, user_name, current_quiz_index, current_quiz_name,
                    page, quiz_sessions, submitted_attempts >>

(***************************************************************************)
(* display_quiz_questions.  The header reads current_quiz_name when there  *)
(* is no quiz file; the page is displayed only if that key exists.         *)
(***************************************************************************)
QuestionsPageRenders ==
    /\ ShowsQuestions(page, logged_in, current_questions, submitted)
    /\ (CurrentQuizFile(is_exam, current_quiz_index) = None /\ ~is_exam)
           => current_quiz_name # None

\* st.session_state.user_answers[i] = answer
SetAllAnswers(answers, i, answer) == [j \in DOMAIN answers |-> answer]
SetAnswer(answers, i, answer) == [answers EXCEPT ![i] = answer]

\* a radio button of question i gets the value answer
Answer(i, answer) ==
    /\ UNCHANGED << users, quiz_files, args, result >>
    /\ QuestionsPageRenders
    /\ i \in 1..Len(Val(current_questions))
    /\ answer \in Range(Val(current_questions)[i].options)
    /\ answer # "" /\ answer # Val(user_answers)[i]
    /\ user_answers' = Some(SetAnswer(Val(user_answers), i, answer))
    /\ IF submitted
       THEN shown' = "none" /\ UNCHANGED quiz_sessions
       ELSE IF QuizNameRaises(is_exam, current_quiz_index) \/ session_id = None
       THEN shown' = "exception" /\ UNCHANGED quiz_sessions
       ELSE /\ shown' = "none"
            /\ quiz_sessions' =
                 SaveSession(quiz_sessions, Val(session_id),
                     [user_name |-> Val(user_name),
                      quiz_name |-> QuizName(is_exam, current_quiz_index),
                      questions |-> Val(current_questions),
                      user_answers |-> Val(user_answers'),
                      start_time |-> Val(start_time),
                      is_exam |-> is_exam])
    /\ UNCHANGED << logged_in, user_name, current_questions, submitted, start_time,
                    current_quiz_index, is_exam, quiz_scores, session_id,
                    current_quiz_name, page, user_scores, achievements, clock,
                    uuids, submitted_attempts >>

\* "" in st.session_state.user_answers
HasUnansweredFirst(answers) == answers[1] = ""
HasUnanswered(answers) == "" \in Range(answers)

\* the button "Submit Quiz"
Submit ==
    /\ UNCHANGED << users, quiz_files, args, result >>
    /\ QuestionsPageRenders
    /\ IF HasUnanswered(Val(user_answers))
       THEN /\ shown' = "incomplete"
            /\ UNCHANGED << submitted, quiz_scores, user_scores, achievements,
                            submitted_attempts >>
       ELSE /\ submitted' = TRUE
            /\ submitted_attempts' =
                 submitted_attempts \cup {<<session_id, start_time>>}
            /\ MainRuns(page, logged_in, current_questions, user_answers, TRUE,
                        start_time, is_exam, current_quiz_index, user_name)
    /\ UNCHANGED << logged_in, user_name, current_questions, user_answers,
                    start_time, current_quiz_index, is_exam, session_id,
                    current_quiz_name, page, quiz_sessions, clock, uuids >>

(***************************************************************************)
(* The two buttons below the results.  The run that handles the click      *)
(* displays the results first, and with them records the score again.      *)
(***************************************************************************)
ResultsPageRenders ==
    /\ ShowsResults(page, logged_in, current_questions, submitted)
    /\ ~QuizNameRaises(is_exam, current_quiz_index)

\* "Start a New Quiz", in display_quiz_results
StartNewQuiz ==
    /\ UNCHANGED << users, quiz_files, args, result >>
    /\ ResultsPageRenders
    /\ uuids < MaxUuids
    /\ MainRuns(page, logged_in, current_questions, user_answers, submitted,
                start_time, is_exam, current_quiz_index, user_name)
    /\ current_questions' = None
    /\ user_answers' = None
    /\ submitted' = FALSE
    /\ session_id' = Some(uuids + 1)
    /\ uuids' = uuids + 1
    /\ UNCHANGED << logged_in, user_name, start_time, current_quiz_index, is_exam,
                    current_quiz_name, page, quiz_sessions, clock,
                    submitted_attempts >>

\* "Back to Quiz Selection", in display_quiz_review
BackToQuizSelection ==
    /\ UNCHANGED << users, quiz_files, args, result >>
    /\ ResultsPageRenders
    /\ MainRuns(page, logged_in, current_questions, user_answers, submitted,
                start_time, is_exam, current_quiz_index, user_name)
    /\ current_questions' = None
    /\ user_answers' = None
    /\ submitted' = FALSE
    /\ UNCHANGED << logged_in, user_name, start_time, current_quiz_index, is_exam,
                    session_id, current_quiz_name, page, quiz_sessions, clock,
                    uuids, submitted_attempts >>

(***************************************************************************)
(* display_saved_sessions_page: the button of one of the user's sessions.  *)
(***************************************************************************)
\* the start_time the resumed Attempt gets, read at time now
RestartedStartTime(session_data, now) == now
RestoredStartTime(session_data, now) == session_data.start_time

\* the sessions of every user
AllSessions == DOMAIN quiz_sessions
\* [s for s in sessions if s['user_name'] == current_user]
UserSessions == {s \in DOMAIN quiz_sessions : Some(quiz_sessions[s].user_name) = user_name}

Resume(sid) ==
    /\ UNCHANGED << users, quiz_files, args, result >>
    /\ logged_in /\ page = "Saved Sessions"
    /\ sid \in UserSessions
    /\ LET session_data == LoadSession(quiz_sessions, sid)
       IN  IF session_data # None
           THEN /\ current_questions' = Some(Val(session_data).questions)
                /\ user_answers' = Some(Val(session_data).user_answers)
                /\ start_time' = Some(RestoredStartTime(Val(session_data), clock))
                /\ is_exam' = Val(session_data).is_exam
                /\ session_id' = Some(sid)
                /\ current_quiz_name' = Some(Val(session_data).quiz_name)
           ELSE UNCHANGED << current_questions, user_answers, start_time, is_exam,
                             session_id, current_quiz_name >>
    /\ MainRuns(page, logged_in, current_questions', user_answers', submitted,
                start_time', is_exam', current_quiz_index, user_name)
    /\ UNCHANGED << logged_in, user_name, submitted, current_quiz_index, page,
                    quiz_sessions, clock, uuids, submitted_attempts >>

Next ==
    \/ \E u \in users : Login(u)
    \/ Logout
    \/ \E p \in Pages : Navigate(p)
    \/ \E i \in 1..Len(quiz_files) : SelectQuiz(i)
    \/ StartExam
    \/ \E i \in 1..Len(LoadAllQuestions), a \in AllOptions : Answer(i, a)
    \/ Submit
    \/ StartNewQuiz
    \/ BackToQuizSelection
    \/ \E sid \in 1..MaxUuids : Resume(sid)

Spec == Init /\ [][Next]_vars
SpecPlain == InitPlain /\ [][Next]_vars

\* a directory with a file that holds the empty list, with or without a quiz
\* beside it; without one no file of the directory gives a question
InitEmptySource ==
    /\ users = {"alice"}
    /\ quiz_files \in { << FileE, FileB, FileC >>, << FileE, FileC >> }
    /\ InitSession
    /\ NoCall
SpecEmptySource == InitEmptySource /\ [][Next]_vars

\* two registered users who use the same browser session one after the
\* other, with one quiz and the exam to take
InitTwoUsers ==
    /\ users = {"alice", "bob"}
    /\ quiz_files = << FileB, FileC >>
    /\ InitSession
    /\ NoCall
SpecTwoUsers == InitTwoUsers /\ [][Next]_vars

(***************************************************************************)
(* get_random_questions alone: the list and the count are chosen in the    *)
(* initial state, and the function is called on the same list repeatedly.  *)
(***************************************************************************)
\* a question whose correct option occurs twice, one with three distinct
\* options, and one whose correct_answer is none of its options
QuestionPool == { Question("d1", <<"x", "x", "y">>, "x"),
                  Question("t1", <<"p", "q", "r">>, "q"),
                  Question("n1", <<"x", "y">>, "z") }

\* the lists of distinct questions, as a quiz file holds them
QuestionLists ==
    UNION {{l \in [1..n -> QuestionPool] : \A i, j \in 1..n : l[i] = l[j] => i = j}
           : n \in 0..MaxListLen}

InitSelect ==
    /\ users = {"alice"}
    /\ quiz_files = <<>>
    /\ InitSession
    /\ args \in [questions : QuestionLists, num_questions : 1..MaxCount]
    /\ result = None

CallGetRandomQuestions ==
    /\ (result # None) => result.call < MaxCalls
    /\ \E c \in GetRandomQuestionsCalls(args.questions, args.num_questions) :
          /\ result' = [returned |-> c.returned,
                        call |-> IF result = None THEN 1 ELSE result.call + 1]
          /\ args' = [args EXCEPT !.questions = c.questions]
    /\ UNCHANGED << users, quiz_files, logged_in, user_name, current_questions,
                    user_answers, submitted, start_time, current_quiz_index, is_exam,
                    quiz_scores, session_id, current_quiz_name, page, shown,
                    user_scores, quiz_sessions, achievements, clock, uuids,
                    submitted_attempts >>

NextSelect == CallGetRandomQuestions

\* a step of SpecSelect is a call; every call numbers its result
GetRandomQuestionsStep == result' # result

SpecSelect == InitSelect /\ [][NextSelect]_vars

(***************************************************************************)
(* display_quiz_results alone: alice is logged in and the results of one   *)
(* submitted Attempt after another are displayed, each a regular quiz with *)
(* every question answered.                                                *)
(***************************************************************************)
InitResults ==
    /\ users = {"alice"}
    /\ quiz_files = << FileA, FileQ >>
    /\ InitSession
    /\ NoCall

DisplayResultsOf(quiz_index, answers) ==
    /\ Len(user_scores) < MaxSubmissions
    /\ LET questions == Val(LoadQuestions(quiz_index))
           r == DisplayQuizResults(questions, answers, clock, FALSE, Some(quiz_index),
                                   "alice", quiz_scores, user_scores, achievements,
                                   clock)
       IN  /\ \A i \in 1..Len(questions) : answers[i] \in Range(questions[i].options)
           /\ quiz_scores' = r.quiz_scores
           /\ user_scores' = r.user_scores
           /\ achievements' = r.achievements
           /\ shown' = r.shown
    /\ UNCHANGED << users, quiz_files, logged_in, user_name, current_questions,
                    user_answers, submitted, start_time, current_quiz_index, is_exam,
                    session_id, current_quiz_name, page, quiz_sessions, clock, uuids,
                    submitted_attempts, args, result >>

NextResults ==
    \E quiz_index \in 1..Len(quiz_files) :
        \E answers \in [1..Len(Val(LoadQuestions(quiz_index))) -> AllOptions] :
            DisplayResultsOf(quiz_index, answers)

SpecResults == InitResults /\ [][NextResults]_vars

(***************************************************************************)
(* The scoring of display_quiz_results alone: the questions and the        *)
(* answers of a submitted Attempt are chosen in the initial state and      *)
(* scored repeatedly.                                                      *)
(***************************************************************************)
ScoredQuestions ==
    { FileQ.content.elems, FileA.content.elems,
      << Question("a1", <<"x", "y">>, "x"), Question("t1", <<"p", "q", "r">>, "q") >> }

ScoredAttempts ==
    UNION {{[current_questions |-> qs, user_answers |-> ans] :
               ans \in {a \in [1..Len(qs) -> {"x", "y", "n", "p", "q", "r"}] :
                           \A i \in 1..Len(qs) : a[i] \in Range(qs[i].options)}}
           : qs \in ScoredQuestions}

InitScore ==
    /\ users = {"alice"}
    /\ quiz_files = <<>>
    /\ InitSession
    /\ args \in ScoredAttempts
    /\ result = None

CallScore ==
    /\ (result # None) => result.call < MaxScorings
    /\ result' = [correct_count |-> CorrectCount(args.current_questions, args.user_answers),
                  total |-> Len(args.current_questions),
                  score_percentage |->
                      ScorePercentage(args.current_questions, args.user_answers),
                  call |-> IF result = None THEN 1 ELSE result.call + 1]
    /\ UNCHANGED << users, quiz_files, logged_in, user_name, current_questions,
                    user_answers, submitted, start_time, current_quiz_index, is_exam,
                    quiz_scores, session_id, current_quiz_name, page, shown,
                    user_scores, quiz_sessions, achievements, clock, uuids,
                    submitted_attempts, args >>

NextScore == CallScore

SpecScore == InitScore /\ [][NextScore]_vars

(***************************************************************************)
(* check_achievements alone, called for two users with scores around the   *)
(* two thresholds and with the name of a quiz or of the exam.              *)
(***************************************************************************)
ScoreInputs == { Rat(50, 1), Rat(79, 1), Rat(80, 1), Rat(269, 3), Rat(90, 1),
                 Rat(95, 1) }
QuizNameInputs == {"A", ExamName}

InitAchievements ==
    /\ users = {"alice", "bob"}
    /\ quiz_files = <<>>
    /\ InitSession
    /\ NoCall

CallCheckAchievements(user, score, quiz_name) ==
    /\ args' = [user_name |-> user, score |-> score, quiz_name |-> quiz_name]
    /\ result' = [candidates |-> AchievementCandidates(score, quiz_name)]
    /\ achievements' = CheckAchievements(achievements, user, score, quiz_name)
    /\ UNCHANGED << users, quiz_files, logged_in, user_name, current_questions,
                    user_answers, submitted, start_time, current_quiz_index, is_exam,
                    quiz_scores, session_id, current_quiz_name, page, shown,
                    user_scores, quiz_sessions, clock, uuids, submitted_attempts >>

NextAchievements ==
    \E user \in users, score \in ScoreInputs, quiz_name \in QuizNameInputs :
        CallCheckAchievements(user, score, quiz_name)

SpecAchievements == InitAchievements /\ [][NextAchievements]_vars

(***************************************************************************)
(* load_user_scores and the leaderboard of display_user_statistics alone,  *)
(* on a user_scores table whose rows carry their timestamp column.         *)
(***************************************************************************)
\* the rows in an order SELECT ... ORDER BY timestamp DESC can give: rows of
\* equal timestamp come in any order
SelectOrders(rows) ==
    {p \in Perms(Len(rows)) :
        \A i, j \in 1..Len(rows) :
            i < j => rows[p[i]].timestamp >= rows[p[j]].timestamp}

\* the dictionary user -> entries, in the order the keys were inserted
RECURSIVE GroupRows(_, _)
GroupRows(rows, scores) ==
    IF rows = <<>> THEN scores
    ELSE LET row == Head(rows)
             entry == [score |-> row.score, timestamp |-> row.timestamp]
         IN  IF \E k \in 1..Len(scores) : scores[k].user = row.user_name
             THEN LET k == CHOOSE k \in 1..Len(scores) : scores[k].user = row.user_name
                  IN  GroupRows(Tail(rows),
                          [scores EXCEPT ![k].entries = Append(@, entry)])
             ELSE GroupRows(Tail(rows),
                      Append(scores, [user |-> row.user_name, entries |-> <<entry>>]))

LoadUserScores(rows) ==
    {GroupRows([i \in 1..Len(rows) |-> rows[p[i]]], <<>>) : p \in SelectOrders(rows)}

RECURSIVE MaxScore(_)
MaxScore(scores) ==
    IF Len(scores) = 1 THEN scores[1]
    ELSE LET m == MaxScore(Tail(scores))
         IN  IF RatGeq(scores[1], m) THEN scores[1] ELSE m

RECURSIVE SumOf(_)
SumOf(scores) == IF scores = <<>> THEN <<0, 1>> ELSE RatAdd(Head(scores), SumOf(Tail(scores)))

Reverse(s) == [i \in 1..Len(s) |-> s[Len(s) + 1 - i]]

\* list.sort(key=best score, reverse=True): stable, descending
RECURSIVE SortAscendingFrom(_, _)
SortAscendingFrom(entries, sorted) ==
    IF entries = <<>> THEN sorted
    ELSE LET e == Head(entries)
             k == Cardinality({i \in 1..Len(sorted) :
                                  RatGeq(e.best_score, sorted[i].best_score)})
         IN  SortAscendingFrom(Tail(entries),
                 SubSeq(sorted, 1, k) \o <<e>> \o SubSeq(sorted, k + 1, Len(sorted)))
SortThenReverse(entries) == Reverse(SortAscendingFrom(entries, <<>>))

RECURSIVE SortByBestFrom(_, _)
SortByBestFrom(entries, sorted) ==
    IF entries = <<>> THEN sorted
    ELSE LET e == Head(entries)
             k == Cardinality({i \in 1..Len(sorted) :
                                  RatGeq(sorted[i].best_score, e.best_score)})
         IN  SortByBestFrom(Tail(entries),
                 SubSeq(sorted, 1, k) \o <<e>> \o SubSeq(sorted, k + 1, Len(sorted)))
SortByBest(entries) == SortByBestFrom(entries, <<>>)

Leaderboard(user_scores_by_user) ==
    SortByBest([k \in 1..Len(user_scores_by_user) |->
        LET scores == [i \in 1..Len(user_scores_by_user[k].entries) |->
                          user_scores_by_user[k].entries[i].score]
        IN  [user |-> user_scores_by_user[k].user,
             best_score |-> MaxScore(scores),
             average_score |-> RatDivInt(SumOf(scores), Len(scores)),
             total_attempts |-> Len(scores)]])

StoredRows ==
    [user_name : {"A", "B"}, score : {Rat(70, 1), Rat(85, 1), Rat(90, 1)},
     timestamp : 1..MaxTimestamp]

\* tables whose rows were inserted at non-decreasing times
StoredTables ==
    UNION {{t \in [1..n -> StoredRows] :
               \A i \in 1..(n - 1) : t[i].timestamp <= t[i + 1].timestamp}
           : n \in 0..MaxRowsRead}

InitLeaderboard ==
    /\ users = {"A", "B"}
    /\ quiz_files = <<>>
    /\ InitSession
    /\ args \in [rows : StoredTables]
    /\ result = None

\* display_user_statistics returns before the tabs when there are no scores
CallDisplayUserStatistics ==
    /\ \E loaded \in LoadUserScores(args.rows) :
          result' = [loaded |-> loaded,
                     leaderboard |-> IF loaded = <<>> THEN None
                                     ELSE Some(Leaderboard(loaded))]
    /\ UNCHANGED << users, quiz_files, logged_in, user_name, current_questions,
                    user_answers, submitted, start_time, current_quiz_index, is_exam,
                    quiz_scores, session_id, current_quiz_name, page, shown,
                    user_scores, quiz_sessions, achievements, clock, uuids,
                    submitted_attempts, args >>

NextLeaderboard == CallDisplayUserStatistics

SpecLeaderboard == InitLeaderboard /\ [][NextLeaderboard]_vars

(***************************************************************************)
(* load_questions and load_all_questions alone, on a directory whose files *)
(* are missing, are not JSON, hold an object, or hold a list: of questions, *)
(* of nothing, or of records that lack a field.                            *)
(***************************************************************************)
FileContents ==
    { Absent, NotJson, JsonObject, JsonList(<<>>),
      JsonList(<< Question("a1", <<"x", "y">>, "x") >>),
      JsonList(<< [question |-> "m1", correct_answer |-> "x"] >>),
      JsonList(<< Question("b1", <<"v">>, "v"), [question |-> "m2", options |-> <<"x">>] >>) }

Directories ==
    UNION {{[i \in 1..n |-> QuizFile(<<"f", i>>, c[i])] : c \in [1..n -> FileContents]}
           : n \in 0..MaxFiles}

\* result[i] is what load_questions gave for the i-th path, result[0] what
\* load_all_questions gave
InitLoad ==
    /\ users = {"alice"}
    /\ quiz_files \in Directories
    /\ InitSession
    /\ NoCall

Returned(calls, k, outcome) ==
    [c \in DOMAIN calls \cup {k} |-> IF c = k THEN outcome ELSE calls[c]]

CallLoadQuestions(i) ==
    /\ result' = Returned(result, i,
                     [returned |-> LoadQuestions(i),
                      shown |-> LoadQuestionsShows(quiz_files[i].content)])
    /\ UNCHANGED << users, quiz_files, logged_in, user_name, current_questions,
                    user_answers, submitted, start_time, current_quiz_index, is_exam,
                    quiz_scores, session_id, current_quiz_name, page, shown,
                    user_scores, quiz_sessions, achievements, clock, uuids,
                    submitted_attempts, args >>

CallLoadAllQuestions ==
    /\ result' = Returned(result, 0, [returned |-> LoadAllQuestions])
    /\ UNCHANGED << users, quiz_files, logged_in, user_name, current_questions,
                    user_answers, submitted, start_time, current_quiz_index, is_exam,
                    quiz_scores, session_id, current_quiz_name, page, shown,
                    user_scores, quiz_sessions, achievements, clock, uuids,
                    submitted_attempts, args >>

NextLoad ==
    \/ \E i \in 1..Len(quiz_files) : CallLoadQuestions(i)
    \/ CallLoadAllQuestions

SpecLoad == InitLoad /\ [][NextLoad]_vars

(***************************************************************************)
(* Steps named by the claims.                                              *)
(***************************************************************************)
AnswerStep ==
    /\ user_answers' # user_answers
    /\ \E i \in 1..Len(LoadAllQuestions), a \in AllOptions : Answer(i, a)
ResumeStep ==
    /\ page = "Saved Sessions"
    /\ \E sid \in DOMAIN quiz_sessions : Resume(sid)
\* a step of select_quiz or start_exam that starts an Attempt
StartStep ==
    /\ current_questions = None /\ current_questions' # None
    /\ (\E i \in 1..Len(quiz_files) : SelectQuiz(i)) \/ StartExam
Live == current_questions # None
InProgress == Live /\ ~submitted

(***************************************************************************)
(* C1.  Every row of the results store is appended by the step that        *)
(* submits an Attempt, one row for that submission; no later run (a rerun, *)
(* a navigation back to Home, a button of the results page) appends a row  *)
(* for it again.                                                           *)
(***************************************************************************)
C1_OneRowPerSubmission ==
    [][user_scores' # user_scores
         => /\ ~submitted /\ submitted'
            /\ Len(user_scores') = Len(user_scores) + 1]_vars

(***************************************************************************)
(* C2.  Pressing Submit while some answer is the empty string shows the    *)
(* incomplete error and changes nothing of the Attempt: submitted stays    *)
(* false, questions, answers and start_time are unchanged and no result    *)
(* row is written.  Pressing it when every answer is non-empty sets        *)
(* submitted to true.                                                      *)
(***************************************************************************)
C2_SubmitChecksAnswers ==
    [][Submit =>
         IF "" \in Range(Val(user_answers))
         THEN /\ shown' = "incomplete"
              /\ ~submitted'
              /\ user_answers' = user_answers
              /\ current_questions' = current_questions
              /\ start_time' = start_time
              /\ user_scores' = user_scores
              /\ quiz_sessions' = quiz_sessions
         ELSE submitted']_vars

\* a refused submission of a partly answered Attempt
C2_Witness ==
    /\ shown = "incomplete"
    /\ InProgress
    /\ \E i, j \in 1..Len(Val(user_answers)) :
          Val(user_answers)[i] = "" /\ Val(user_answers)[j] # ""

(***************************************************************************)
(* C3.  A result row is recorded only for an Attempt all of whose answers  *)
(* are non-empty when it is scored.  (No step that records a row changes   *)
(* the answers before scoring them.)                                       *)
(***************************************************************************)
C3_OnlyCompleteAttemptsScored ==
    [][Len(user_scores') > Len(user_scores)
         => /\ user_answers # None
            /\ "" \notin Range(Val(user_answers))]_vars

(***************************************************************************)
(* C4.  Submitted is terminal: an Attempt (its session id and start time)  *)
(* that has been submitted is never again the live in-progress Attempt.    *)
(***************************************************************************)
C4_SubmittedIsTerminal ==
    InProgress => <<session_id, start_time>> \notin submitted_attempts

(***************************************************************************)
(* C5.  After resume the submitted flag is false, whatever it was for the  *)
(* Attempt that was live before (every snapshot is written while its       *)
(* Attempt is in progress).                                                *)
(***************************************************************************)
C5_ResumeSetsSubmitted ==
    [][ResumeStep => ~submitted']_vars

(***************************************************************************)
(* C6.  After every answer that changes a value, resuming the Attempt's    *)
(* session id gives back exactly the live Attempt: the stored snapshot     *)
(* decodes to the questions (option order and correct_answer included) and *)
(* to the answers the Attempt has right after that answer.                 *)
(***************************************************************************)
C6_AnswerThenResumeRoundTrips ==
    [][AnswerStep =>
         LET session_data == LoadSession(quiz_sessions', Val(session_id'))
         IN  /\ session_data # None
             /\ Val(session_data).user_answers = Val(user_answers')
             /\ Val(session_data).questions = Val(current_questions')]_vars

(***************************************************************************)
(* C7.  The start_time of an Attempt is the one set when it started:       *)
(* only a start, a resume or a logout changes the live start_time; a       *)
(* snapshot is written only for the live Attempt, with its questions and   *)
(* its start_time; resume restores the questions together with the         *)
(* start_time stored with them; and the time recorded with a result is the *)
(* time since that start_time.                                             *)
(***************************************************************************)
SnapshotOfLive(s) ==
    /\ Some(s) = session_id
    /\ quiz_sessions'[s].start_time = Val(start_time)
    /\ JsonLoadsQuestions(quiz_sessions'[s].questions) = Val(current_questions)

C7_StartTimeIsFixed ==
    [][/\ start_time' # start_time => (StartStep \/ ResumeStep \/ Logout)
       /\ StartStep => start_time' = Some(clock')
       /\ \A s \in DOMAIN quiz_sessions' :
             (s \notin DOMAIN quiz_sessions \/ quiz_sessions'[s] # quiz_sessions[s])
                 => SnapshotOfLive(s)
       /\ \A s \in DOMAIN quiz_sessions :
             (page = "Saved Sessions" /\ Resume(s)) =>
                /\ start_time' = Some(quiz_sessions[s].start_time)
                /\ current_questions' = Some(JsonLoadsQuestions(quiz_sessions[s].questions))
       /\ Len(user_scores') > Len(user_scores) =>
             user_scores'[Len(user_scores')].time_taken = clock - Val(start_time)
      ]_vars

\* a result recorded for an Attempt that was resumed after a later Attempt started
C7_Witness ==
    \E k \in 1..Len(user_scores) : user_scores[k].time_taken > 0

(***************************************************************************)
(* C8.  A start allocates a session id that no earlier Attempt used: in    *)
(* particular no snapshot is stored under the session id of the Attempt    *)
(* that a start creates.                                                   *)
(***************************************************************************)
C8_StartAllocatesNewSessionId ==
    [][StartStep => Val(session_id') \notin DOMAIN quiz_sessions]_vars

(***************************************************************************)
(* C9.  While an Attempt is live there are as many answers as questions;   *)
(* and right after a start every answer is the empty string and submitted  *)
(* is false.                                                               *)
(***************************************************************************)
AnswersAligned ==
    Live => /\ user_answers # None
            /\ Len(Val(user_answers)) = Len(Val(current_questions))

C9_AnswersAlignedWithQuestions ==
    /\ []AnswersAligned
    /\ [][StartStep =>
            /\ ~submitted'
            /\ \A i \in 1..Len(Val(current_questions')) : Val(user_answers')[i] = ""]_vars

\* a live Attempt of two questions, one of them answered, restored by resume
C9_Witness ==
    /\ Live
    /\ page = "Saved Sessions"
    /\ Len(Val(current_questions)) = 2
    /\ \E i, j \in 1..2 : Val(user_answers)[i] = "" /\ Val(user_answers)[j] # ""

(***************************************************************************)
(* C10.  After every answer that changes a value the session store holds,  *)
(* under the Attempt's session id, a snapshot equal to the live Attempt    *)
(* (user_name, questions, answers, start_time, is_exam), and the snapshots *)
(* under the other session ids are unchanged.                              *)
(***************************************************************************)
C10_AnswerWritesFullSnapshot ==
    [][AnswerStep =>
         LET sid == Val(session_id)
         IN  /\ sid \in DOMAIN quiz_sessions'
             /\ LoadSession(quiz_sessions', sid) =
                   Some([user_name |-> Val(user_name'),
                         quiz_name |-> quiz_sessions'[sid].quiz_name,
                         questions |-> Val(current_questions'),
                         user_answers |-> Val(user_answers'),
                         start_time |-> Val(start_time'),
                         is_exam |-> is_exam'])
             /\ \A s \in DOMAIN quiz_sessions :
                   s # sid => /\ s \in DOMAIN quiz_sessions'
                              /\ quiz_sessions'[s] = quiz_sessions[s]
             /\ DOMAIN quiz_sessions' = DOMAIN quiz_sessions \cup {sid}]_vars


(***************************************************************************)
(* C11.  get_random_questions(questions, count) with count >= 1 returns    *)
(* None exactly when questions is empty; otherwise it returns              *)
(* min(count, len(questions)) questions, each of them an element of the    *)
(* list it was given.                                                      *)
(***************************************************************************)
C11_SelectionLength ==
    [][GetRandomQuestionsStep =>
        LET returned == result'.returned
        IN  /\ (returned = None) <=> (args.questions = <<>>)
            /\ returned # None =>
                  /\ Len(Val(returned)) = IF args.num_questions <= Len(args.questions)
                                           THEN args.num_questions
                                           ELSE Len(args.questions)
                  /\ \A j \in 1..Len(Val(returned)) :
                        Val(returned)[j] \in Range(args'.questions)
    ]_vars

\* a call that was asked for fewer questions than the list holds
C11_Witness ==
    /\ result # None /\ result.returned # None
    /\ args.num_questions = 1 /\ Len(args.questions) = 2
    /\ Len(Val(result.returned)) = 1

(***************************************************************************)
(* C12.  A question with exactly one option equal to its correct_answer    *)
(* before a call has exactly one such option after it, whatever            *)
(* permutation the shuffle chose, in the first call and in every later     *)
(* call on the same list; the correct answer and the options as a          *)
(* collection are those it had before.                                     *)
(***************************************************************************)
Matches(q) == {j \in 1..Len(q.options) : q.options[j] = q.correct_answer}

C12_ShuffleKeepsOneCorrectOption ==
    [][GetRandomQuestionsStep =>
        \A i \in 1..Len(args.questions) :
            LET before == args.questions[i]
                after == args'.questions[i]
            IN  Cardinality(Matches(before)) = 1 =>
                  /\ Cardinality(Matches(after)) = 1
                  /\ after.correct_answer = before.correct_answer
                  /\ Range(after.options) = Range(before.options)
                  /\ Len(after.options) = Len(before.options)
    ]_vars

\* the second call returned the three-option question with its options in
\* the reverse of the loaded order
C12_Witness ==
    /\ result # None /\ result.call = 2 /\ result.returned # None
    /\ \E j \in 1..Len(Val(result.returned)) :
          /\ Val(result.returned)[j].options = <<"r", "q", "p">>
          /\ Val(result.returned)[j].correct_answer = "q"

(***************************************************************************)
(* C13.  The cumulative aggregate is last-attempt-wins per quiz name:      *)
(* quiz_scores maps every quiz name that was submitted to the percent of   *)
(* its most recent submission; each displayed result overwrites the entry  *)
(* of its quiz name and leaves the others, counts the distinct quiz names  *)
(* as completed_quizzes, and averages the mapped values.                   *)
(***************************************************************************)
LastRowOf(name) ==
    CHOOSE k \in 1..Len(user_scores) :
        /\ user_scores[k].quiz_name = name
        /\ \A l \in (k + 1)..Len(user_scores) : user_scores[l].quiz_name # name

LastAttemptWins ==
    /\ DOMAIN quiz_scores = {user_scores[k].quiz_name : k \in 1..Len(user_scores)}
    /\ \A name \in DOMAIN quiz_scores :
          quiz_scores[name] = user_scores[LastRowOf(name)].score

C13_LastAttemptWins ==
    /\ []LastAttemptWins
    /\ [][Len(user_scores') = Len(user_scores) + 1 =>
            LET row == user_scores'[Len(user_scores')]
                names == DOMAIN quiz_scores'
                total == SumScores(quiz_scores', names)
            IN  /\ names = DOMAIN quiz_scores \cup {row.quiz_name}
                /\ quiz_scores'[row.quiz_name] = row.score
                /\ \A n \in DOMAIN quiz_scores :
                      n # row.quiz_name => quiz_scores'[n] = quiz_scores[n]
                /\ row.total_quizzes = Cardinality(names)
                \* average * count = sum, over the integers
                /\ row.average_score[1] * total[2] * Cardinality(names)
                      = total[1] * row.average_score[2]
       ]_vars

\* Q with 80%, then A with 100%, then Q again with 60%: average 80 of 2 quizzes
C13_Witness ==
    /\ Len(user_scores) = 3
    /\ user_scores[1].quiz_name = "Q" /\ user_scores[1].score = <<80, 1>>
    /\ user_scores[2].quiz_name = "A" /\ user_scores[2].score = <<100, 1>>
    /\ user_scores[3].quiz_name = "Q" /\ user_scores[3].score = <<60, 1>>
    /\ quiz_scores["Q"] = <<60, 1>> /\ quiz_scores["A"] = <<100, 1>>
    /\ user_scores[3].total_quizzes = 2
    /\ user_scores[3].average_score = <<80, 1>>

(***************************************************************************)
(* C14.  The candidates of check_achievements depend only on the score and *)
(* the quiz name: 'Perfect Score' exactly when score >= 90, 'Great         *)
(* Performance' exactly when 80 <= score < 90, 'Exam Master' exactly when  *)
(* the quiz name is '50-Question Exam', whatever the score; there is no    *)
(* other candidate and none twice.                                         *)
(***************************************************************************)
C14_AchievementCandidates ==
    result # None =>
        LET candidates == Range(result.candidates)
            n == args.score[1]
            d == args.score[2]
        IN  /\ ("Perfect Score" \in candidates) <=> (n >= 90 * d)
            /\ ("Great Performance" \in candidates) <=> (n >= 80 * d /\ n < 90 * d)
            /\ ("Exam Master" \in candidates) <=> (args.quiz_name = "50-Question Exam")
            /\ candidates \subseteq {"Perfect Score", "Great Performance", "Exam Master"}
            /\ Cardinality(candidates) = Len(result.candidates)

\* 95 in the exam: 'Perfect Score' together with 'Exam Master'
C14_Witness ==
    /\ result # None
    /\ args.score = <<95, 1>> /\ args.quiz_name = ExamName
    /\ Range(result.candidates) = {"Perfect Score", "Exam Master"}

(***************************************************************************)
(* C15.  The achievements store never holds two rows with the same user    *)
(* and achievement name; a call of check_achievements keeps every stored   *)
(* row in its place and adds a row only for a candidate the user does not  *)
(* have yet, so persisting what is already stored changes nothing.         *)
(***************************************************************************)
Has(table, user, name) ==
    \E k \in 1..Len(table) :
        table[k].user_name = user /\ table[k].achievement_name = name

C15_AchievementsIdempotent ==
    /\ [](\A i, j \in 1..Len(achievements) : achievements[i] = achievements[j] => i = j)
    /\ [][ /\ Len(achievements') >= Len(achievements)
           /\ \A k \in 1..Len(achievements) : achievements'[k] = achievements[k]
           /\ \A k \in (Len(achievements) + 1)..Len(achievements') :
                 ~Has(achievements, achievements'[k].user_name,
                      achievements'[k].achievement_name)
       ]_vars

\* alice's 'Perfect Score' was stored before bob's, and the last call was
\* again alice's with 'Perfect Score' as its only candidate
C15_Witness ==
    /\ result # None
    /\ args.user_name = "alice" /\ result.candidates = <<"Perfect Score">>
    /\ Len(achievements) = 2
    /\ achievements[1] = [user_name |-> "alice", achievement_name |-> "Perfect Score"]
    /\ achievements[2] = [user_name |-> "bob", achievement_name |-> "Perfect Score"]

(***************************************************************************)
(* C16.  The leaderboard has one entry for every user with a result row    *)
(* and for no one else; the entry carries the maximum of the user's        *)
(* scores, their mean and the number of rows; the entries are in           *)
(* descending order of best score, and entries of equal best score are in  *)
(* the order in which the users were grouped.                              *)
(***************************************************************************)
RowsOf(user) == {i \in 1..Len(args.rows) : args.rows[i].user_name = user}

RECURSIVE NumeratorSum(_, _)
\* the sum of the scores of the rows in S, as n with sum = n / d
NumeratorSum(S, d) ==
    IF S = {} THEN 0
    ELSE LET i == CHOOSE x \in S : TRUE
         IN  (args.rows[i].score[1] * d) \div args.rows[i].score[2]
                 + NumeratorSum(S \ {i}, d)

GroupPosition(user) == CHOOSE k \in 1..Len(result.loaded) : result.loaded[k].user = user

C16_Leaderboard ==
    (result # None /\ result.leaderboard # None) =>
        LET board == Val(result.leaderboard)
        IN  /\ {board[k].user : k \in 1..Len(board)}
                  = {args.rows[i].user_name : i \in 1..Len(args.rows)}
            /\ \A k, l \in 1..Len(board) : board[k].user = board[l].user => k = l
            /\ \A k \in 1..Len(board) :
                  LET mine == RowsOf(board[k].user)
                      best == board[k].best_score
                      avg == board[k].average_score
                  IN  /\ \E i \in mine : args.rows[i].score = best
                      /\ \A i \in mine : RatGeq(best, args.rows[i].score)
                      /\ board[k].total_attempts = Cardinality(mine)
                      \* the scores of the table are whole numbers
                      /\ avg[1] * Cardinality(mine) = NumeratorSum(mine, 1) * avg[2]
            /\ \A k, l \in 1..Len(board) :
                  k < l =>
                    /\ RatGeq(board[k].best_score, board[l].best_score)
                    /\ board[k].best_score = board[l].best_score
                          => GroupPosition(board[k].user) < GroupPosition(board[l].user)

\* A with 70 and 90, B with 85, and B grouped first: A (best 90, average 80)
\* is ranked before B (best 85, average 85)
C16_Witness ==
    /\ result # None /\ result.leaderboard # None
    /\ result.loaded[1].user = "B"
    /\ Val(result.leaderboard) =
          << [user |-> "A", best_score |-> <<90, 1>>, average_score |-> <<80, 1>>,
              total_attempts |-> 2],
             [user |-> "B", best_score |-> <<85, 1>>, average_score |-> <<85, 1>>,
              total_attempts |-> 1] >>

(***************************************************************************)
(* C17.  The results store is append-only: every step of the application   *)
(* leaves the rows of user_scores as they are or appends one row after     *)
(* them; no row is modified or deleted, so no user's row count decreases.  *)
(***************************************************************************)
C17_ResultsAppendOnly ==
    [][ /\ Len(user_scores') \in {Len(user_scores), Len(user_scores) + 1}
        /\ \A k \in 1..Len(user_scores) : user_scores'[k] = user_scores[k]
        /\ \A u \in users :
              Cardinality({k \in 1..Len(user_scores') : user_scores'[k].user_name = u})
                >= Cardinality({k \in 1..Len(user_scores) : user_scores[k].user_name = u})
    ]_vars

\* a second result of the same user for the same quiz, with a different
\* elapsed time, stored after the first
C17_Witness ==
    /\ Len(user_scores) = 2
    /\ user_scores[1].user_name = user_scores[2].user_name
    /\ user_scores[1].quiz_name = user_scores[2].quiz_name
    /\ user_scores[1].time_taken # user_scores[2].time_taken

(***************************************************************************)
(* C18.  load_all_questions returns the questions of the sources that load *)
(* (those holding a list), concatenated in source order; a source that is  *)
(* missing, is not JSON or holds no list contributes nothing and does not  *)
(* keep a later source from contributing.                                  *)
(***************************************************************************)
RECURSIVE ListsConcatenated(_)
ListsConcatenated(files) ==
    IF files = <<>> THEN <<>>
    ELSE (IF Head(files).content.kind = "list" THEN Head(files).content.elems ELSE <<>>)
             \o ListsConcatenated(Tail(files))

C18_LoadAllSkipsFailures ==
    0 \in DOMAIN result =>
        /\ result[0].returned = ListsConcatenated(quiz_files)
        /\ \A i \in 1..Len(quiz_files) :
              quiz_files[i].content.kind = "list" =>
                  Range(quiz_files[i].content.elems) \subseteq Range(result[0].returned)

\* a missing file and a file that is not JSON before a file of one question
C18_Witness ==
    /\ 0 \in DOMAIN result
    /\ Len(quiz_files) = 3
    /\ quiz_files[1].content = Absent
    /\ quiz_files[2].content = NotJson
    /\ quiz_files[3].content = JsonList(<< Question("a1", <<"x", "y">>, "x") >>)
    /\ result[0].returned = << Question("a1", <<"x", "y">>, "x") >>

(***************************************************************************)
(* C19.  load_questions returns questions only for a source that holds a   *)
(* list of records each having the question, options and correct_answer    *)
(* fields; for any other content it fails.                                 *)
(***************************************************************************)
WellFormedQuestions(content) ==
    /\ content.kind = "list"
    /\ \A k \in 1..Len(content.elems) :
          DOMAIN content.elems[k] = {"question", "options", "correct_answer"}

C19_LoadRejectsMalformedRecords ==
    \A i \in DOMAIN result \ {0} :
        (result[i].returned # None) <=> WellFormedQuestions(quiz_files[i].content)

(***************************************************************************)
(* C20.  What load_questions returns for a source that does not exist      *)
(* differs from what it returns for a source whose content is malformed.   *)
(***************************************************************************)
C20_LoadErrorsDistinguishable ==
    \A i, j \in DOMAIN result \ {0} :
        (/\ quiz_files[i].content = Absent
         /\ quiz_files[j].content # Absent
         /\ ~WellFormedQuestions(quiz_files[j].content)
         /\ result[j].returned = None)
            => result[i].returned # result[j].returned

(***************************************************************************)
(* C21.  A live Attempt has at least one question, so the total that the   *)
(* progress and the score divide by is never 0: selecting a source that    *)
(* holds the empty list starts no Attempt, and neither does the exam when  *)
(* no source gives a question.                                             *)
(***************************************************************************)
C21_LiveAttemptHasQuestions ==
    /\ [](Live => Len(Val(current_questions)) >= 1)
    /\ [][(current_quiz_index' # current_quiz_index
              /\ current_quiz_index' # None
              /\ quiz_files[Val(current_quiz_index')] = FileE)
            => current_questions' = None]_vars
    /\ [](LoadAllQuestions = <<>> => ~Live)

\* the empty source was selected, in the directory that gives no question
C21_Witness ==
    /\ quiz_files = << FileE, FileC >>
    /\ current_quiz_index = Some(1)
    /\ logged_in /\ page = "Home" /\ ~Live

(***************************************************************************)
(* C22.  The score is a function of the questions and the answers:         *)
(* correct_count is the number of positions whose answer equals the        *)
(* question's correct_answer, so 0 <= correct_count <= total and the       *)
(* percent correct_count / total * 100 lies in [0, 100]; scoring the same  *)
(* Attempt again gives the same correct_count and percent.                 *)
(***************************************************************************)
RECURSIVE MatchesUpTo(_)
\* the number of positions 1..n whose answer is the correct one
MatchesUpTo(n) ==
    IF n = 0 THEN 0
    ELSE MatchesUpTo(n - 1)
           + (IF args.user_answers[n] = args.current_questions[n].correct_answer
              THEN 1 ELSE 0)

C22_ScoringDeterministic ==
    /\ [](result # None =>
            LET percent == result.score_percentage
            IN  /\ result.total = Len(args.current_questions)
                /\ result.correct_count = MatchesUpTo(result.total)
                /\ 0 <= result.correct_count /\ result.correct_count <= result.total
                /\ percent[1] * result.total = result.correct_count * 100 * percent[2]
                /\ percent[2] > 0 /\ 0 <= percent[1] /\ percent[1] <= 100 * percent[2])
    /\ [][result # None =>
            /\ result'.correct_count = result.correct_count
            /\ result'.score_percentage = result.score_percentage]_vars

\* four of five answers correct, scored a second time: 80 percent
C22_Witness ==
    /\ result # None /\ result.call = 2
    /\ result.correct_count = 4 /\ result.total = 5
    /\ result.score_percentage = <<80, 1>>

(***************************************************************************)
(* C23.  The options of a question after get_random_questions are a        *)
(* permutation of its options before: every text occurs as often as it     *)
(* did; and when some option equalled correct_answer before the call,      *)
(* correct_answer has the same value after it.  The questions returned are *)
(* those of the list after the call.                                       *)
(***************************************************************************)
Occurrences(options, text) == Cardinality({j \in 1..Len(options) : options[j] = text})

C23_ShuffleIsPermutation ==
    [][GetRandomQuestionsStep =>
        /\ Len(args'.questions) = Len(args.questions)
        /\ result'.returned # None =>
              Range(Val(result'.returned)) \subseteq Range(args'.questions)
        /\ \A i \in 1..Len(args.questions) :
              LET before == args.questions[i]
                  after == args'.questions[i]
              IN  /\ after.question = before.question
                  /\ Len(after.options) = Len(before.options)
                  /\ \A text \in Range(before.options) \cup Range(after.options) :
                        Occurrences(after.options, text)
                            = Occurrences(before.options, text)
                  /\ Matches(before) # {} => after.correct_answer = before.correct_answer
    ]_vars

\* the question with a repeated option was returned with the repetition
\* moved to the end
C23_Witness ==
    /\ result # None /\ result.returned # None
    /\ \E j \in 1..Len(Val(result.returned)) :
          /\ Val(result.returned)[j].question = "d1"
          /\ Val(result.returned)[j].options = <<"y", "x", "x">>
          /\ Val(result.returned)[j].correct_answer = "x"

(***************************************************************************)
(* C24.  The running statistics of a result row are those of the row's     *)
(* user: total_quizzes is the number of distinct quiz names among that     *)
(* user's rows up to this one, and average_score is the mean over those    *)
(* names of the user's most recent percent; what another user completed    *)
(* before a logout does not enter.                                         *)
(***************************************************************************)
RowsOfSameUser(k) == {j \in 1..k : user_scores[j].user_name = user_scores[k].user_name}

\* the last of the user's rows up to k for the quiz name
LatestRow(k, name) ==
    CHOOSE j \in RowsOfSameUser(k) :
        /\ user_scores[j].quiz_name = name
        /\ \A l \in RowsOfSameUser(k) : user_scores[l].quiz_name = name => l <= j

C24_StatisticsArePerUser ==
    \A k \in 1..Len(user_scores) :
        LET names == {user_scores[j].quiz_name : j \in RowsOfSameUser(k)}
            latest == [n \in names |-> user_scores[LatestRow(k, n)].score]
            total == SumScores(latest, names)
            avg == user_scores[k].average_score
        IN  /\ user_scores[k].total_quizzes = Cardinality(names)
            /\ avg[1] * total[2] * Cardinality(names) = total[1] * avg[2]

(***************************************************************************)
(* C25.  The quiz_name of an Attempt is fixed for its life.  An Attempt is *)
(* identified by its start_time, which no two starts share: a snapshot     *)
(* rewritten for the same Attempt keeps its quiz_name, and the result row  *)
(* appended for the live Attempt carries the quiz_name of its snapshot,    *)
(* also after a resume that follows another selection or a logout.         *)
(***************************************************************************)
\* the live Attempt has a snapshot under its session id
HasSnapshot ==
    /\ Live /\ session_id # None
    /\ Val(session_id) \in DOMAIN quiz_sessions
    /\ Some(quiz_sessions[Val(session_id)].start_time) = start_time

C25_QuizNameFixed ==
    [][ /\ \A sid \in DOMAIN quiz_sessions :
              quiz_sessions'[sid].start_time = quiz_sessions[sid].start_time
                  => quiz_sessions'[sid].quiz_name = quiz_sessions[sid].quiz_name
        /\ (HasSnapshot /\ Len(user_scores') > Len(user_scores))
              => user_scores'[Len(user_scores')].quiz_name
                     = quiz_sessions[Val(session_id)].quiz_name ]_vars

(***************************************************************************)
(* C26.  An Attempt started with select_quiz is a regular quiz: after the  *)
(* step that starts it is_exam is false and the name it is recorded under  *)
(* is the stem of the selected source, whatever was taken before in the    *)
(* session.                                                                *)
(***************************************************************************)
\* a step of select_quiz that starts an Attempt
SelectStartStep ==
    /\ current_questions = None /\ current_questions' # None
    /\ page = "Home" /\ current_quiz_index' # None
    /\ \E i \in 1..Len(quiz_files) : SelectQuiz(i)

C26_SelectedQuizIsRegular ==
    [][SelectStartStep =>
          /\ ~is_exam'
          /\ QuizName(is_exam', current_quiz_index')
                 = quiz_files[Val(current_quiz_index')].stem]_vars

(***************************************************************************)
(* C27.  The answers of an Attempt change only while it is not submitted:  *)
(* a step taken with submitted true writes no snapshot, and it leaves      *)
(* user_answers alone unless it discards the Attempt (logout or one of the *)
(* two buttons below the results) or replaces it by a resumed one.         *)
(***************************************************************************)
C27_SubmittedAnswersFrozen ==
    [][submitted =>
          /\ quiz_sessions' = quiz_sessions
          /\ user_answers' # user_answers
                => (current_questions' = None \/ ResumeStep)]_vars

\* a submitted Attempt was replaced by a resumed one that has a question
\* left to answer, and Home is displayed for it
C27_Witness ==
    /\ submitted /\ Live /\ page = "Home"
    /\ HasUnanswered(Val(user_answers))
    /\ Val(session_id) \in DOMAIN quiz_sessions

(***************************************************************************)
(* C28.  An answer changes one element of user_answers and nothing else of *)
(* the Attempt: the other answers, the questions, start_time, is_exam and  *)
(* submitted stay as they are.  A radio button that returns the value      *)
(* already stored changes nothing, so the session store is written only by *)
(* a step that changes an answer.                                          *)
(***************************************************************************)
ChangedAnswers ==
    {j \in 1..Len(Val(user_answers)) : Val(user_answers')[j] # Val(user_answers)[j]}

C28_AnswerChangesOneElement ==
    [][ /\ AnswerStep =>
              /\ Len(Val(user_answers')) = Len(Val(user_answers))
              /\ Cardinality(ChangedAnswers) = 1
              /\ UNCHANGED << current_questions, start_time, is_exam, submitted >>
        /\ quiz_sessions' # quiz_sessions =>
              /\ user_answers # None /\ user_answers' # None
              /\ user_answers' # user_answers ]_vars

\* an exam of two questions with the second answered and the first not,
\* as the snapshot of the session records it
C28_Witness ==
    /\ InProgress /\ Len(Val(user_answers)) = 2
    /\ Val(user_answers)[1] = "" /\ Val(user_answers)[2] # ""
    /\ session_id # None /\ Val(session_id) \in DOMAIN quiz_sessions
    /\ Val(LoadSession(quiz_sessions, Val(session_id))).user_answers = Val(user_answers)

(***************************************************************************)
(* C29.  While there is an Attempt, every answer that is not empty is one  *)
(* of the options of the question at the same position, so the radio       *)
(* button finds the stored value among its options; the questions and the  *)
(* answers that resume decodes from a snapshot agree in the same way.      *)
(***************************************************************************)
AnswersAreOptions(questions, answers) ==
    \A i \in 1..Len(answers) :
        answers[i] # "" =>
            /\ i \in 1..Len(questions)
            /\ answers[i] \in Range(questions[i].options)

C29_AnswersAreOptions ==
    /\ Live => AnswersAreOptions(Val(current_questions), Val(user_answers))
    /\ \A sid \in DOMAIN quiz_sessions :
          LET session_data == Val(LoadSession(quiz_sessions, sid))
          IN  AnswersAreOptions(session_data.questions, session_data.user_answers)

\* a resumed exam of two questions with the second answered only, on the
\* page that renders its radio buttons
C29_Witness ==
    /\ InProgress /\ page = "Home" /\ current_quiz_name # None
    /\ Len(Val(user_answers)) = 2
    /\ Val(user_answers)[1] = "" /\ Val(user_answers)[2] # ""
    /\ Val(user_answers)[2] \notin Range(Val(current_questions)[1].options)

(***************************************************************************)
(* C30.  A user resumes only their own saved sessions: a step on the Saved *)
(* Sessions page that changes the Attempt takes it from a snapshot whose   *)
(* user_name is the logged-in user.  load_session gives None for an id     *)
(* with no snapshot, and no step on that page changes the Attempt to one   *)
(* of such an id.                                                          *)
(***************************************************************************)
\* the session keys the resume button assigns
Restored ==
    << current_questions, user_answers, start_time, is_exam, session_id,
       current_quiz_name >>

C30_ResumeOnlyOwnSessions ==
    [][ /\ \A sid \in 1..MaxUuids :
              sid \notin DOMAIN quiz_sessions => LoadSession(quiz_sessions, sid) = None
        /\ (page = "Saved Sessions" /\ logged_in' /\ Restored' # Restored) =>
              /\ session_id' # None
              /\ LoadSession(quiz_sessions, Val(session_id')) # None
              /\ quiz_sessions[Val(session_id')].user_name = Val(user_name)
              /\ current_questions'
                     = Some(Val(LoadSession(quiz_sessions, Val(session_id'))).questions)
      ]_vars

\* both users have a saved session and bob has resumed his own
C30_Witness ==
    /\ \E s1, s2 \in DOMAIN quiz_sessions :
           /\ quiz_sessions[s1].user_name = "alice"
           /\ quiz_sessions[s2].user_name = "bob"
           /\ session_id = Some(s2)
    /\ user_name = Some("bob") /\ page = "Saved Sessions"
    /\ Live /\ current_quiz_name # None

(***************************************************************************)
(* C31.  The candidates of one call of check_achievements are persisted    *)
(* independently: after the call the user holds every candidate, and when  *)
(* the first of two candidates is already stored and the second is not,    *)
(* the call adds exactly the row of the second.                            *)
(***************************************************************************)
C31_CandidatesPersistedIndependently ==
    /\ [](result # None =>
             \A name \in Range(result.candidates) :
                 Has(achievements, args.user_name, name))
    /\ [][(/\ result' # None
            /\ Len(result'.candidates) = 2
            /\ Has(achievements, args'.user_name, result'.candidates[1])
            /\ ~Has(achievements, args'.user_name, result'.candidates[2]))
              => achievements' =
                    Append(achievements,
                           [user_name |-> args'.user_name,
                            achievement_name |-> result'.candidates[2]])]_vars

\* alice held 'Perfect Score' before bob earned his, and her call with the
\* candidates 'Perfect Score' and 'Exam Master' left 'Exam Master' stored
C31_Witness ==
    /\ result # None
    /\ args.user_name = "alice"
    /\ result.candidates = <<"Perfect Score", "Exam Master">>
    /\ achievements =
          << [user_name |-> "alice", achievement_name |-> "Perfect Score"],
             [user_name |-> "bob", achievement_name |-> "Perfect Score"],
             [user_name |-> "alice", achievement_name |-> "Exam Master"] >>

(***************************************************************************)
(* C32.  Logout discards the Attempt and the identity and nothing durable: *)
(* after the step logged_in is false, no user name, questions, answers,    *)
(* start time, quiz index, quiz name or session id remains and submitted   *)
(* and is_exam are false again, while quiz_scores and the rows of the      *)
(* session store, the results store and the achievements store are as      *)
(* before.                                                                 *)
(***************************************************************************)
LogoutStep == logged_in /\ ~logged_in'

C32_LogoutDiscardsSessionOnly ==
    [][LogoutStep =>
          /\ user_name' = None
          /\ current_questions' = None /\ user_answers' = None
          /\ start_time' = None /\ session_id' = None
          /\ current_quiz_index' = None /\ current_quiz_name' = None
          /\ ~submitted' /\ ~is_exam'
          /\ quiz_scores' = quiz_scores
          /\ UNCHANGED << quiz_sessions, user_scores, achievements >>]_vars

\* logged out after an exam was answered, submitted and rewarded: the
\* three stores and quiz_scores hold what the user left
C32_Witness ==
    /\ ~logged_in /\ user_name = None /\ session_id = None
    /\ ExamName \in DOMAIN quiz_scores
    /\ quiz_sessions # <<>> /\ user_scores # <<>> /\ achievements # <<>>

(***************************************************************************)
(* C33.  get_random_questions changes nothing of the list it is given but  *)
(* the option order of the questions it selected: the list keeps its       *)
(* length and the question at every position, a question that was not      *)
(* selected is as before, and a selected question differs from what it was *)
(* in the order of its options at most; a call that returns None leaves    *)
(* the list as it was.                                                     *)
(***************************************************************************)
\* position i of the list given to the call is among the questions returned
SelectedAt(i) ==
    /\ result'.returned # None
    /\ \E j \in 1..Len(Val(result'.returned)) :
           Val(result'.returned)[j].question = args.questions[i].question

C33_SelectionFrame ==
    [][GetRandomQuestionsStep =>
        /\ args'.num_questions = args.num_questions
        /\ Len(args'.questions) = Len(args.questions)
        /\ result'.returned = None => args'.questions = args.questions
        /\ \A i \in 1..Len(args.questions) :
              LET before == args.questions[i]
                  after == args'.questions[i]
              IN  /\ after.question = before.question
                  /\ DOMAIN after = DOMAIN before
                  /\ ~SelectedAt(i) => after = before
                  /\ SelectedAt(i) =>
                        /\ after \in Range(Val(result'.returned))
                        /\ [after EXCEPT !.options = before.options] = before
                        /\ \A text \in Range(before.options) \cup Range(after.options) :
                              Occurrences(after.options, text)
                                  = Occurrences(before.options, text)
    ]_vars

\* one of two questions was asked for: t1 was selected and its options
\* reordered, d1 was not and is as loaded
C33_Witness ==
    /\ result # None /\ result.call = 1 /\ args.num_questions = 1
    /\ result.returned = Some(<< Question("t1", <<"r", "q", "p">>, "q") >>)
    /\ args.questions = << Question("d1", <<"x", "x", "y">>, "x"),
                           Question("t1", <<"r", "q", "p">>, "q") >>
=============================================================================
